---------------------------- MODULE Spec2Model ----------------------------
(***************************************************************************)
(* Model of the CityJSON importer for Blender.                             *)
(*                                                                         *)
(* Two importers live in the repository: CityJSONParser.execute            *)
(* (src/core/objects.py) and the older objects_renderer                    *)
(* (src/CityJSON_Blender_parser.py).  Both are modelled as step machines   *)
(* over the same document; the helpers clean_buffer, clean_list,           *)
(* assign_properties and coord_translate_axis_origin are those of          *)
(* src/CityJSON_Blender_parser.py.                                         *)
(*                                                                         *)
(* JSON values whose Python type the code inspects (isinstance) are        *)
(* encoded as tagged records [t |-> tag, v |-> payload]; boundaries, which *)
(* the code only indexes, are plain nested sequences.  Python's 0-based    *)
(* indices are kept as stored numbers; a sequence position k (1-based)     *)
(* holds the element Python calls [k-1].                                   *)
(***************************************************************************)
EXTENDS Integers, Sequences, FiniteSets, TLC

VARIABLES
    data,           \* the parsed CityJSON document (self.data)
    entry,          \* which importer runs: "execute" or "objects_renderer"
    pc,             \* position of the importer
    error,          \* "none", or the Python exception that aborted the import
    vertices,       \* the normalised vertex pool (self.vertices)
    oi,             \* index of the CityObject the current loop is at
    gi,             \* index of the geometry the geometry loop is at
    bound,          \* the flattened face list (local `bound`)
    temp_vertices,  \* clean_buffer's first result
    temp_bound,     \* clean_buffer's second result
    values,         \* the flattened semantic values handed to the mesh
    cityobjs,       \* id -> container object built for the CityObject
    new_objects,    \* every object created so far, in creation order
    linked,         \* names of the objects linked to a collection, in order
    diagnostics,    \* number of "faces but semantic surfaces" messages printed
    bpy_materials,  \* bpy.data.materials, in name order
    mats,           \* the materials handed to the mesh, one per semantic surface
    lod,            \* get_scene_name's argument
    scene_name      \* get_scene_name's result

vars == <<data, entry, pc, error, vertices, oi, gi, bound, temp_vertices,
          temp_bound, values, cityobjs, new_objects, linked, diagnostics,
          bpy_materials, mats, lod, scene_name>>

---------------------------------------------------------------------------
(* Bounds of the checked input families.                                   *)

MaxCoord == 1
MaxVerts == 2
MaxBufFaces == 2
MaxFaceLen == 2
MaxPropItems == 3
MaxNodes == 8
MaxSemNodes == 4
MaxObjs == 3
MaxSurfaces == 3
MaxLod == 12
MaxGeoms == 2

---------------------------------------------------------------------------
(* JSON encoding.                                                          *)

JInt(n) == [t |-> "int", v |-> n]
JStr(s) == [t |-> "str", v |-> s]
JNull == [t |-> "null", v |-> <<>>]
JList(s) == [t |-> "list", v |-> s]
JDict(s) == [t |-> "dict", v |-> s]

IsList(x) == x.t = "list"
IsDict(x) == x.t = "dict"

\* A dict is an insertion-ordered sequence of <<key, value>> pairs.
Keys(d) == {d.v[i][1] : i \in DOMAIN d.v}
HasKey(d, k) == k \in Keys(d)
Get(d, k) == d.v[CHOOSE i \in DOMAIN d.v : d.v[i][1] = k][2]

SeqsUpTo(S, n) == UNION {[1..k -> S] : k \in 0..n}

Min(S) == CHOOSE m \in S : \A x \in S : m <= x

---------------------------------------------------------------------------
(* GeometryFlattener: the type dispatch of parse_geometry (the same loops  *)
(* are in objects_renderer).                                               *)

RECURSIVE FacesLoopAllRings(_)
\* A mutant of FacesLoop: every ring of a face becomes a face (no hole is dropped).
FacesLoopAllRings(faces) ==
    IF faces = <<>> THEN <<>>
    ELSE Head(faces) \o FacesLoopAllRings(Tail(faces))

RECURSIVE FacesLoop(_)
\* for face in faces: if face: bound.append(tuple(face[0]))
FacesLoop(faces) ==
    IF faces = <<>> THEN <<>>
    ELSE (IF Head(faces) # <<>> THEN <<Head(faces)[1]>> ELSE <<>>)
         \o FacesLoop(Tail(faces))

RECURSIVE ShellsLoop(_)
\* for shell in shells: for face in shell: ...
ShellsLoop(shells) ==
    IF shells = <<>> THEN <<>>
    ELSE FacesLoop(Head(shells)) \o ShellsLoop(Tail(shells))

RECURSIVE SolidsLoop(_)
\* for solid in solids: for shell in solid: for face in shell: ...
SolidsLoop(solids) ==
    IF solids = <<>> THEN <<>>
    ELSE ShellsLoop(Head(solids)) \o SolidsLoop(Tail(solids))

\* What one geometry appends to `bound`; an unhandled type appends nothing.
FlattenBoundaries(geom) ==
    CASE geom.type \in {"MultiSurface", "CompositeSurface"} -> FacesLoop(geom.boundaries)
      [] geom.type = "Solid" -> ShellsLoop(geom.boundaries)
      [] geom.type = "MultiSolid" -> SolidsLoop(geom.boundaries)
      [] OTHER -> <<>>

---------------------------------------------------------------------------
(* VertexCompactor: clean_buffer.                                          *)

RECURSIVE CleanBufferLoop(_, _, _, _, _, _)
\* The loop over `bounds`: f is the next face, i the next local index.
CleanBufferLoop(vs, bounds, f, i, new_vertices, new_bounds) ==
    IF f > Len(bounds) THEN [vertices |-> new_vertices, faces |-> new_bounds]
    ELSE LET b == bounds[f]
         IN  CleanBufferLoop(vs, bounds, f + 1, i + Len(b),
                  new_vertices \o [j \in 1..Len(b) |-> vs[b[j] + 1]],
                  Append(new_bounds, [j \in 1..Len(b) |-> i + j - 1]))

RECURSIVE DedupLoop(_, _, _, _, _)
\* A mutant of clean_buffer: a global vertex seen before reuses its local index.
DedupLoop(vs, bounds, f, seen, new_bounds) ==
    IF f > Len(bounds)
    THEN [vertices |-> [k \in 1..Len(seen) |-> vs[seen[k] + 1]], faces |-> new_bounds]
    ELSE LET b == bounds[f]
             fresh == SelectSeq(b, LAMBDA g : \A k \in DOMAIN seen : seen[k] # g)
             seen2 == seen \o fresh
         IN  DedupLoop(vs, bounds, f + 1, seen2,
                  Append(new_bounds,
                         [j \in 1..Len(b) |->
                            (CHOOSE k \in DOMAIN seen2 : seen2[k] = b[j]) - 1]))

clean_buffer_dedup(vs, bounds) == DedupLoop(vs, bounds, 1, <<>>, <<>>)

clean_buffer(vs, bounds) == CleanBufferLoop(vs, bounds, 1, 0, <<>>, <<>>)

---------------------------------------------------------------------------
(* clean_list: the flattening applied to semantics.values.                 *)

RECURSIVE clean_list(_)
\* while isinstance(values[0], list): values = values[0]
\* values[0] of an empty list raises IndexError.
clean_list(vals) ==
    IF vals.v = <<>> THEN [ok |-> FALSE, val |-> vals]
    ELSE IF IsList(vals.v[1]) THEN clean_list(vals.v[1])
    ELSE [ok |-> TRUE, val |-> vals]

---------------------------------------------------------------------------
(* PropertyMapper: assign_properties.  The custom properties of a Blender  *)
(* object are a function from key to value; obj[key] = value overwrites.   *)

Reserved == {"geometry", "children", "parents"}

RECURSIVE JoinPath(_)
\* ".".join(path), path being prefix + [prop]
JoinPath(path) ==
    IF Len(path) = 1 THEN path[1]
    ELSE path[1] \o "." \o JoinPath(Tail(path))

\* A mutant of JoinKey: the prefix is lost, the key is the last map key alone.
JoinKeyNoPrefix(prefix, prop) == prop

JoinKey(prefix, prop) == JoinPath(Append(prefix, prop))

RECURSIVE AssignLoop(_, _, _, _)
\* The loop over props.items() from item i on; prefix is the list of outer keys.
AssignLoop(obj, props, prefix, i) ==
    IF i > Len(props.v) THEN obj
    ELSE LET prop == props.v[i][1]
             value == props.v[i][2]
         IN  IF prop \in Reserved THEN AssignLoop(obj, props, prefix, i + 1)
             ELSE IF IsDict(value)
                  THEN AssignLoop(AssignLoop(obj, value, Append(prefix, prop), 1),
                                  props, prefix, i + 1)
                  ELSE AssignLoop((JoinKey(prefix, prop) :> value) @@ obj,
                                  props, prefix, i + 1)

assign_properties(obj, props) == AssignLoop(obj, props, <<>>, 1)

---------------------------------------------------------------------------
(* CoordinateNormalizer: prepare_vertices and coord_translate_axis_origin. *)

\* minx, miny, minz and the translated pool; min() of an empty pool raises.
coord_translate_axis_origin(vs) ==
    LET minx == Min({vs[i][1] : i \in DOMAIN vs})
        miny == Min({vs[i][2] : i \in DOMAIN vs})
        minz == Min({vs[i][3] : i \in DOMAIN vs})
    IN  [verts |-> [i \in DOMAIN vs |->
                      <<vs[i][1] - minx, vs[i][2] - miny, vs[i][3] - minz>>],
         minx |-> minx, miny |-> miny, minz |-> minz]

\* A mutant of TransformVertex: every axis is scaled by scale[0].
TransformVertexOneScale(d, vertex) ==
    IF ~d.hasTransform THEN vertex
    ELSE <<vertex[1] * d.transform.scale[1] + d.transform.translate[1],
           vertex[2] * d.transform.scale[1] + d.transform.translate[2],
           vertex[3] * d.transform.scale[1] + d.transform.translate[3]>>

\* One vertex of the pool: as is, or scaled and translated per axis.
TransformVertex(d, vertex) ==
    IF ~d.hasTransform THEN vertex
    ELSE <<vertex[1] * d.transform.scale[1] + d.transform.translate[1],
           vertex[2] * d.transform.scale[2] + d.transform.translate[2],
           vertex[3] * d.transform.scale[3] + d.transform.translate[3]>>

TransformedPool(d) == [i \in DOMAIN d.vertices |-> TransformVertex(d, d.vertices[i])]

---------------------------------------------------------------------------
(* Objects of the Blender data model, and the loop control of the import.  *)

NoParent == <<>>

\* bpy.data.objects.new(name, None)
create_empty_object(name) ==
    [name |-> name, kind |-> "empty", props |-> <<>>, parent |-> NoParent,
     vertices |-> <<>>, faces |-> <<>>, material_index |-> <<>>]

Unset == [t |-> "unset", v |-> <<>>]

DigitStr == <<"0", "1", "2", "3", "4", "5", "6", "7", "8", "9">>

RECURSIVE DecStr(_)
\* str(n) of a natural number
DecStr(n) == IF n < 10 THEN DigitStr[n + 1] ELSE DecStr(n \div 10) \o DigitStr[(n % 10) + 1]

\* The float whose value is i + d/10, d one decimal digit
JFloat(i, d) == [t |-> "float", v |-> <<i, d>>]

\* "{}".format(x) of a JSON number or string; a float prints as its shortest
\* repr, "i.d"
Format(x) ==
    CASE x.t = "str" -> x.v
      [] x.t = "float" -> DecStr(x.v[1]) \o "." \o DecStr(x.v[2])
      [] OTHER -> DecStr(x.v)

\* A scene name that renders a whole float as an integer.
get_scene_name_normalized(l) ==
    IF l.t = "float" /\ l.v[2] = 0 THEN "LoD " \o DecStr(l.v[1])
    ELSE "LoD " \o Format(l)

\* "LoD {lod}".format(lod=lod)
get_scene_name(l) == "LoD " \o Format(l)

NObjs == Len(data.CityObjects)
ObjId(o) == data.CityObjects[o][1]
Obj(o) == data.CityObjects[o][2]
Geoms(o) == Get(Obj(o), "geometry").v

\* Where the import goes once every object is built and parented.
StartLink(objs) ==
    IF objs = <<>> THEN [pc |-> "done", oi |-> 1] ELSE [pc |-> "link", oi |-> 1]

\* Where the import goes once the geometries of object o are done.
AfterObject(o) ==
    IF o < NObjs THEN [pc |-> "create", oi |-> o + 1]
    ELSE [pc |-> "hierarchy", oi |-> 1]

\* Where the import goes once the hierarchy step of object o is done.
AfterHierarchy(o, objs) ==
    IF o < NObjs THEN [pc |-> "hierarchy", oi |-> o + 1] ELSE StartLink(objs)

Fail(exc) == pc' = "failed" /\ error' = exc

PrepareVertices ==
    /\ pc = "prepare"
    /\ IF data.vertices = <<>>
       THEN /\ Fail("ValueError")
            /\ UNCHANGED <<vertices, oi>>
       ELSE /\ vertices' = coord_translate_axis_origin(TransformedPool(data)).verts
            /\ pc' = IF NObjs = 0 THEN "done" ELSE "create"
            /\ oi' = 1
            /\ UNCHANGED error
    /\ UNCHANGED <<data, entry, gi, bound, temp_vertices, temp_bound, values,
                   cityobjs, new_objects, linked, diagnostics,
                   bpy_materials, mats, lod, scene_name>>

---------------------------------------------------------------------------
(* CityJSONParser.execute (src/core/objects.py).                           *)

\* "{index}: [LoD{lod}] {name}" or "{index}: [GeometryInstance] {name}"
get_geometry_name(objid, geom, index) ==
    IF geom.hasLod
    THEN DecStr(index) \o ": [LoD" \o Format(geom.lod) \o "] " \o objid
    ELSE DecStr(index) \o ": [GeometryInstance] " \o objid

RECURSIVE ConcatLists(_)
ConcatLists(lists) ==
    IF lists = <<>> THEN <<>> ELSE Head(lists).v \o ConcatLists(Tail(lists))

\* semantics.values flattened by the rule of the geometry's type: none for
\* MultiSurface and CompositeSurface, one level for Solid, two for MultiSolid.
FlattenValues(type, vals) ==
    CASE type = "Solid" -> JList(ConcatLists(vals.v))
      [] type = "MultiSolid" -> JList(ConcatLists(ConcatLists(vals.v)))
      [] OTHER -> vals

\* Semantic surface types, in the name order in which bpy.data.materials
\* lists its materials.
SurfaceTypes == <<"Roof", "RoofSurface", "Wall", "WallSurface">>

TypeRank(t) == CHOOSE i \in DOMAIN SurfaceTypes : SurfaceTypes[i] = t

\* The semantic surface {"type": t}
Surface(t) == JDict(<< <<"type", JStr(t)>> >>)

\* str.startswith
startswith(name, prefix) ==
    Len(prefix) <= Len(name) /\ SubSeq(name, 1, Len(prefix)) = prefix

check_material(material, surface) ==
    startswith(material.name, Get(surface, "type").v)

\* bpy.data.materials.new(name=surface['type']); assign_properties(mat, surface)
new_material(surface) ==
    [name |-> Get(surface, "type").v, props |-> assign_properties(<<>>, surface)]

\* The registry with material m added at its place in name order.
InsertByName(ms, m) ==
    LET k == Cardinality({i \in DOMAIN ms : TypeRank(ms[i].name) < TypeRank(m.name)})
    IN  SubSeq(ms, 1, k) \o <<m>> \o SubSeq(ms, k + 1, Len(ms))

\* get_material of src/CityJSON_Blender_parser.py on the registry ms: the
\* material returned and the registry afterwards.
get_material(ms, surface) ==
    LET matches == SelectSeq(ms, LAMBDA m : check_material(m, surface))
    IN  IF Len(matches) > 0
        THEN [mat |-> matches[1], materials |-> ms]
        ELSE [mat |-> new_material(surface),
              materials |-> InsertByName(ms, new_material(surface))]

RECURSIVE SurfacesLoop(_, _, _, _)
\* for surface in geom['semantics']['surfaces']: obj_data.materials.append(get_material(surface))
SurfacesLoop(ms, surfaces, i, out) ==
    IF i > Len(surfaces) THEN [mats |-> out, materials |-> ms]
    ELSE LET r == get_material(ms, Surface(surfaces[i]))
         IN  SurfacesLoop(r.materials, surfaces, i + 1, Append(out, r.mat))

\* The Reuse strategy of the material factory: an existing material is reused
\* when its type tag is the surface's and the name-prefix check succeeds.
ReuseMaterial(ms, surface) ==
    LET matches == SelectSeq(ms, LAMBDA m : /\ m.props["type"] = Get(surface, "type")
                                            /\ check_material(m, surface))
    IN  IF Len(matches) > 0
        THEN [mat |-> matches[1], materials |-> ms]
        ELSE [mat |-> new_material(surface),
              materials |-> InsertByName(ms, new_material(surface))]

RECURSIVE ReuseLoop(_, _, _, _)
ReuseLoop(ms, surfaces, i, out) ==
    IF i > Len(surfaces) THEN [mats |-> out, materials |-> ms]
    ELSE LET r == ReuseMaterial(ms, Surface(surfaces[i]))
         IN  ReuseLoop(r.materials, surfaces, i + 1, Append(out, r.mat))

\* material_factory.get_materials of the Reuse strategy: the materials of
\* semantics.surfaces and the flattened semantics.values; no semantics, no values.
get_materials(ms, geom) ==
    IF geom.hasSemantics
    THEN [mats |-> ReuseLoop(ms, geom.surfaces, 1, <<>>).mats,
          materials |-> ReuseLoop(ms, geom.surfaces, 1, <<>>).materials,
          values |-> FlattenValues(geom.type, geom.values)]
    ELSE [mats |-> <<>>, materials |-> ms, values |-> JList(<<>>)]

AllInts(s) == \A k \in DOMAIN s : s[k].t = "int"

\* create_mesh_object of src/core/objects.py.  polygons.foreach_set of a list
\* holding None raises TypeError; a polygon never written keeps no index.
create_mesh_object(name, vs, faces, materials, material_indices) ==
    LET n == Len(faces)
        m == Len(material_indices)
        obj == [name |-> name, kind |-> "mesh", props |-> <<>>, parent |-> NoParent,
                vertices |-> IF faces # <<>> THEN vs ELSE <<>>,
                faces |-> faces,
                material_index |-> IF faces # <<>> /\ m = n
                                   THEN material_indices
                                   ELSE [k \in 1..n |-> Unset]]
    IN  [obj |-> obj,
         exc |-> IF faces # <<>> /\ m = n /\ ~AllInts(material_indices)
                 THEN "TypeError" ELSE "none",
         printed |-> IF faces # <<>> /\ m > n THEN 1 ELSE 0]

ExecuteCreate ==
    /\ pc = "create"
    /\ entry = "execute"
    /\ LET cityobject == [create_empty_object(ObjId(oi))
                            EXCEPT !.props = assign_properties(<<>>, Obj(oi))]
           objs == Append(new_objects, cityobject)
       IN  /\ new_objects' = objs
           /\ cityobjs' = (ObjId(oi) :> Len(objs)) @@ cityobjs
           /\ IF ~HasKey(Obj(oi), "geometry")
              THEN Fail("KeyError") /\ UNCHANGED <<oi, gi>>
              ELSE IF Geoms(oi) = <<>>
                   THEN /\ pc' = AfterObject(oi).pc
                        /\ oi' = AfterObject(oi).oi
                        /\ UNCHANGED <<gi, error>>
                   ELSE pc' = "geometry" /\ gi' = 1 /\ UNCHANGED <<oi, error>>
    /\ UNCHANGED <<data, entry, vertices, bound, temp_vertices, temp_bound, values,
                   linked, diagnostics,
                   bpy_materials, mats, lod, scene_name>>

\* One pass of `for i, geom in enumerate(obj['geometry'])`: parse_geometry,
\* then the parenting and the append of lines 205-206.
ExecuteGeometry ==
    /\ pc = "geometry"
    /\ entry = "execute"
    /\ LET geom == Geoms(oi)[gi]
           flat == FlattenBoundaries(geom)
           cb == clean_buffer(vertices, flat)
           mv == get_materials(bpy_materials, geom)
           made == create_mesh_object(get_geometry_name(ObjId(oi), geom, gi - 1),
                                      cb.vertices, cb.faces, mv.mats, mv.values.v)
           geom_obj == [made.obj EXCEPT
                          !.props = IF geom.hasLod THEN ("lod" :> geom.lod) ELSE <<>>,
                          !.parent = <<cityobjs[ObjId(oi)]>>]
       IN  /\ bound' = flat
           /\ temp_vertices' = cb.vertices
           /\ temp_bound' = cb.faces
           /\ values' = mv.values
           /\ mats' = mv.mats
           /\ bpy_materials' = mv.materials
           /\ diagnostics' = diagnostics + made.printed
           /\ IF made.exc # "none"
              THEN Fail(made.exc) /\ UNCHANGED <<oi, gi, new_objects>>
              ELSE /\ new_objects' = Append(new_objects, geom_obj)
                   /\ UNCHANGED error
                   /\ IF gi < Len(Geoms(oi))
                      THEN gi' = gi + 1 /\ UNCHANGED <<pc, oi>>
                      ELSE /\ pc' = AfterObject(oi).pc
                           /\ oi' = AfterObject(oi).oi
                           /\ UNCHANGED gi
    /\ UNCHANGED <<data, entry, vertices, cityobjs, linked, lod, scene_name>>

\* A hierarchy pass that leaves an object without parent when its first
\* listed parent is unknown, instead of raising.
ExecuteHierarchySkipsDangling ==
    /\ pc = "hierarchy"
    /\ entry = "execute"
    /\ IF HasKey(Obj(oi), "parents")
       THEN LET parents == Get(Obj(oi), "parents").v
            IN  IF parents = <<>>
                THEN Fail("IndexError") /\ UNCHANGED <<oi, new_objects>>
                ELSE /\ new_objects' =
                          IF parents[1] \in DOMAIN cityobjs
                          THEN [new_objects EXCEPT ![cityobjs[ObjId(oi)]].parent =
                                                      <<cityobjs[parents[1]]>>]
                          ELSE new_objects
                     /\ pc' = AfterHierarchy(oi, new_objects).pc
                     /\ oi' = AfterHierarchy(oi, new_objects).oi
                     /\ UNCHANGED error
       ELSE /\ pc' = AfterHierarchy(oi, new_objects).pc
            /\ oi' = AfterHierarchy(oi, new_objects).oi
            /\ UNCHANGED <<error, new_objects>>
    /\ UNCHANGED <<data, entry, vertices, gi, bound, temp_vertices, temp_bound,
                   values, cityobjs, linked, diagnostics,
                   bpy_materials, mats, lod, scene_name>>

\* One pass of the loop "Assigning child building parts to parent buildings".
ExecuteHierarchy ==
    /\ pc = "hierarchy"
    /\ entry = "execute"
    /\ IF HasKey(Obj(oi), "parents")
       THEN LET parents == Get(Obj(oi), "parents").v
            IN  IF parents = <<>>
                THEN Fail("IndexError") /\ UNCHANGED <<oi, new_objects>>
                ELSE IF parents[1] \notin DOMAIN cityobjs
                     THEN Fail("KeyError") /\ UNCHANGED <<oi, new_objects>>
                     ELSE /\ new_objects' =
                               [new_objects EXCEPT ![cityobjs[ObjId(oi)]].parent =
                                                      <<cityobjs[parents[1]]>>]
                          /\ pc' = AfterHierarchy(oi, new_objects).pc
                          /\ oi' = AfterHierarchy(oi, new_objects).oi
                          /\ UNCHANGED error
       ELSE /\ pc' = AfterHierarchy(oi, new_objects).pc
            /\ oi' = AfterHierarchy(oi, new_objects).oi
            /\ UNCHANGED <<error, new_objects>>
    /\ UNCHANGED <<data, entry, vertices, gi, bound, temp_vertices, temp_bound,
                   values, cityobjs, linked, diagnostics,
                   bpy_materials, mats, lod, scene_name>>

\* One pass of "Link everything to the scene": an object with a 'lod' property
\* goes to the collection of its LoD, any other to the scene collection.
ExecuteLink ==
    /\ pc = "link"
    /\ entry = "execute"
    /\ LET new_object == new_objects[oi]
           collection == IF "lod" \in DOMAIN new_object.props
                         THEN "LoD" \o Format(new_object.props["lod"])
                         ELSE "Scene Collection"
       IN  linked' = Append(linked, [object |-> oi, collection |-> collection])
    /\ IF oi < Len(new_objects)
       THEN oi' = oi + 1 /\ UNCHANGED pc
       ELSE pc' = "done" /\ UNCHANGED oi
    /\ UNCHANGED <<data, entry, error, vertices, gi, bound, temp_vertices,
                   temp_bound, values, cityobjs, new_objects, diagnostics,
                   bpy_materials, mats, lod, scene_name>>

---------------------------------------------------------------------------
(* objects_renderer (src/CityJSON_Blender_parser.py).                      *)

\* bpy.data.objects[name]: the positions in new_objects of the objects so named.
ObjectsNamed(objs, name) == {k \in DOMAIN objs : objs[k].name = name}

\* The first polygon whose assignment raises, or n + 1 when none does:
\* values[j] past the end raises IndexError, a value that is no int TypeError.
FirstBadFace(n, vals) ==
    Min({k \in 1..n : k > Len(vals) \/ vals[k].t # "int"} \cup {n + 1})

\* for face in obj_data.polygons: face.material_index = values[j]; j += 1
assign_material_indices(n, vals) ==
    LET bad == FirstBadFace(n, vals)
    IN  [material_index |-> [k \in 1..n |-> IF k < bad THEN vals[k] ELSE Unset],
         exc |-> IF bad > n THEN "none"
                 ELSE IF bad > Len(vals) THEN "IndexError" ELSE "TypeError"]

\* The head of the loop over CityObjects: the container and a fresh `bound`.
RendererCreate ==
    /\ pc = "create"
    /\ entry = "objects_renderer"
    /\ new_objects' = Append(new_objects, create_empty_object(ObjId(oi)))
    /\ bound' = <<>>
    /\ IF ~HasKey(Obj(oi), "geometry")
       THEN Fail("KeyError") /\ UNCHANGED <<oi, gi>>
       ELSE IF Geoms(oi) = <<>>
            THEN /\ pc' = AfterObject(oi).pc
                 /\ oi' = AfterObject(oi).oi
                 /\ UNCHANGED <<gi, error>>
            ELSE pc' = "geometry" /\ gi' = 1 /\ UNCHANGED <<oi, error>>
    /\ UNCHANGED <<data, entry, vertices, temp_vertices, temp_bound, values,
                   cityobjs, linked, diagnostics,
                   bpy_materials, mats, lod, scene_name>>

\* One pass of `for i in range(len(cityobject['geometry']))`.
RendererGeometry ==
    /\ pc = "geometry"
    /\ entry = "objects_renderer"
    /\ LET geom == Geoms(oi)[gi]
           flat == bound \o FlattenBoundaries(geom)
           cb == clean_buffer(vertices, flat)
           city_obj == Min(ObjectsNamed(new_objects, ObjId(oi)))
           cleaned == clean_list(geom.values)
           n == Len(cb.faces)
           assigned == assign_material_indices(n, cleaned.val.v)
           semantic == geom.hasSemantics /\ cleaned.ok
           looked == SurfacesLoop(bpy_materials, geom.surfaces, 1, <<>>)
           obj == [name |-> DecStr(gi - 1) \o ": [LoD" \o Format(geom.lod)
                               \o "] " \o ObjId(oi),
                   kind |-> "mesh",
                   props |-> assign_properties(<<>>, Obj(oi)),
                   parent |-> <<city_obj>>,
                   vertices |-> IF n > 0 THEN cb.vertices ELSE <<>>,
                   faces |-> cb.faces,
                   material_index |-> IF semantic THEN assigned.material_index
                                      ELSE [k \in 1..n |-> Unset]]
           exc == IF ~geom.hasSemantics THEN "none"
                  ELSE IF ~cleaned.ok THEN "IndexError" ELSE assigned.exc
       IN  /\ bound' = flat
           /\ temp_vertices' = cb.vertices
           /\ temp_bound' = cb.faces
           /\ IF ~geom.hasLod
              THEN Fail("KeyError")
                   /\ UNCHANGED <<oi, gi, new_objects, values, mats, bpy_materials>>
              ELSE /\ new_objects' = Append(new_objects, obj)
                   /\ mats' = IF geom.hasSemantics THEN looked.mats ELSE <<>>
                   /\ bpy_materials' = IF geom.hasSemantics THEN looked.materials
                                       ELSE bpy_materials
                   /\ values' = IF ~geom.hasSemantics THEN values
                                ELSE IF cleaned.ok THEN cleaned.val ELSE geom.values
                   /\ IF exc # "none"
                      THEN Fail(exc) /\ UNCHANGED <<oi, gi>>
                      ELSE /\ UNCHANGED error
                           /\ IF gi < Len(Geoms(oi))
                              THEN gi' = gi + 1 /\ UNCHANGED <<pc, oi>>
                              ELSE /\ pc' = AfterObject(oi).pc
                                   /\ oi' = AfterObject(oi).oi
                                   /\ UNCHANGED gi
    /\ UNCHANGED <<data, entry, vertices, cityobjs, linked, diagnostics,
                   lod, scene_name>>

\* One pass of "Creating parent-child relationship".
RendererHierarchy ==
    /\ pc = "hierarchy"
    /\ entry = "objects_renderer"
    /\ IF HasKey(Obj(oi), "parents") /\ Len(Get(Obj(oi), "parents").v) > 0
       THEN LET parent_id == Get(Obj(oi), "parents").v[1]
                child == Min(ObjectsNamed(new_objects, ObjId(oi)))
            IN  IF ObjectsNamed(new_objects, parent_id) = {}
                THEN Fail("KeyError") /\ UNCHANGED <<oi, new_objects>>
                ELSE /\ new_objects' =
                          [new_objects EXCEPT ![child].parent =
                              <<Min(ObjectsNamed(new_objects, parent_id))>>]
                     /\ pc' = AfterHierarchy(oi, new_objects).pc
                     /\ oi' = AfterHierarchy(oi, new_objects).oi
                     /\ UNCHANGED error
       ELSE /\ pc' = AfterHierarchy(oi, new_objects).pc
            /\ oi' = AfterHierarchy(oi, new_objects).oi
            /\ UNCHANGED <<error, new_objects>>
    /\ UNCHANGED <<data, entry, vertices, gi, bound, temp_vertices, temp_bound,
                   values, cityobjs, linked, diagnostics,
                   bpy_materials, mats, lod, scene_name>>

\* One pass of `for obj in new_objects: scene.collection.objects.link(obj)`.
RendererLink ==
    /\ pc = "link"
    /\ entry = "objects_renderer"
    /\ linked' = Append(linked, [object |-> oi, collection |-> "Scene Collection"])
    /\ IF oi < Len(new_objects)
       THEN oi' = oi + 1 /\ UNCHANGED pc
       ELSE pc' = "done" /\ UNCHANGED oi
    /\ UNCHANGED <<data, entry, error, vertices, gi, bound, temp_vertices,
                   temp_bound, values, cityobjs, new_objects, diagnostics,
                   bpy_materials, mats, lod, scene_name>>

Next ==
    \/ PrepareVertices
    \/ ExecuteCreate
    \/ ExecuteGeometry
    \/ ExecuteHierarchy
    \/ ExecuteLink
    \/ RendererCreate
    \/ RendererGeometry
    \/ RendererHierarchy
    \/ RendererLink

---------------------------------------------------------------------------
(* Input documents.                                                        *)

\* A vertex pool of n distinct points.
BasePool(n) == [i \in 1..n |-> <<i, (i * i) % 5, i % 2>>]

NoTransform == [scale |-> <<1, 1, 1>>, translate |-> <<0, 0, 0>>]

Doc(vs, hasTransform, transform, objs) ==
    [vertices |-> vs, hasTransform |-> hasTransform, transform |-> transform,
     CityObjects |-> objs]

Geometry(type, boundaries) ==
    [type |-> type, hasLod |-> TRUE, lod |-> JInt(1), boundaries |-> boundaries,
     hasSemantics |-> FALSE, values |-> JList(<<>>), surfaces |-> <<>>]

\* A CityObject: type and geometry, then `extra` items (parents, attributes).
CityObject(type, geoms, extra) ==
    JDict(<< <<"type", JStr(type)>>, <<"geometry", [t |-> "geoms", v |-> geoms]>> >>
          \o extra)

Parents(ids) == << <<"parents", [t |-> "ids", v |-> ids]>> >>

Triangle == Geometry("MultiSurface", << << <<0, 1, 2>> >> >>)

\* The state in which an import of one of `docs` starts.
Start(docs, entries) ==
    /\ data \in docs
    /\ entry \in entries
    /\ pc = "prepare"
    /\ error = "none"
    /\ vertices = <<>>
    /\ oi = 1
    /\ gi = 1
    /\ bound = <<>>
    /\ temp_vertices = <<>>
    /\ temp_bound = <<>>
    /\ values = JList(<<>>)
    /\ cityobjs = <<>>
    /\ new_objects = <<>>
    /\ linked = <<>>
    /\ diagnostics = 0
    /\ bpy_materials = <<>>
    /\ mats = <<>>
    /\ lod = JNull
    /\ scene_name = ""

Entries == {"execute", "objects_renderer"}

---------------------------------------------------------------------------
(* SpecVertices: the normalisation of every small integer pool.            *)

Coords == 0..MaxCoord
Points == {<<x, y, z>> : x \in Coords, y \in Coords, z \in Coords}

Transforms ==
    {[has |-> FALSE, tr |-> NoTransform],
     [has |-> TRUE, tr |-> [scale |-> <<1, 1, 1>>, translate |-> <<0, 0, 0>>]],
     [has |-> TRUE, tr |-> [scale |-> <<2, 3, 1>>, translate |-> <<5, -3, 1>>]],
     [has |-> TRUE, tr |-> [scale |-> <<-1, 2, 0>>, translate |-> <<-4, 0, 7>>]]}

VertexDocs ==
    {Doc(vs, tf.has, tf.tr, <<>>) : vs \in SeqsUpTo(Points, MaxVerts), tf \in Transforms}

InitVertices == Start(VertexDocs, {"execute"})

SpecVertices == InitVertices /\ [][PrepareVertices]_vars

\* The transform of the claim: identity without a transform record, else
\* c -> c * scale[axis] + translate[axis].
T(raw) ==
    IF data.hasTransform
    THEN [a \in 1..3 |-> raw[a] * data.transform.scale[a] + data.transform.translate[a]]
    ELSE raw

Prepared == pc # "prepare" /\ data.vertices # <<>>

\* C9: the normalised pool has the length and order of the raw pool; its i-th
\* vertex is T(raw[i]) minus the componentwise minimum of T over the pool; so
\* the componentwise minimum of the result is (0,0,0), and subtracting the
\* minimum once more changes nothing.
C9_Normalized ==
    Prepared =>
      /\ Len(vertices) = Len(data.vertices)
      /\ \A a \in 1..3 :
           \E j \in DOMAIN data.vertices :
             LET m == T(data.vertices[j])[a]
             IN  /\ \A i \in DOMAIN data.vertices : m <= T(data.vertices[i])[a]
                 /\ \A i \in DOMAIN data.vertices :
                      vertices[i][a] = T(data.vertices[i])[a] - m
      /\ \A a \in 1..3 :
           /\ \A i \in DOMAIN vertices : vertices[i][a] >= 0
           /\ \E i \in DOMAIN vertices : vertices[i][a] = 0
      /\ coord_translate_axis_origin(vertices) =
           [verts |-> vertices, minx |-> 0, miny |-> 0, minz |-> 0]

\* A scaled and translated pool of two different points has been normalised.
C9_Witness ==
    /\ Prepared
    /\ data.hasTransform
    /\ data.transform.scale = <<2, 3, 1>>
    /\ Len(vertices) = 2
    /\ vertices[1] # vertices[2]
    /\ vertices # data.vertices

---------------------------------------------------------------------------
(* SpecBuffer: clean_buffer on every small face list over a vertex pool.   *)

\* Normalised pools; the first holds one point at two indices.
BufferPools ==
    {<< <<0, 0, 0>>, <<1, 0, 2>>, <<0, 0, 0>> >>,
     << <<0, 3, 0>>, <<2, 0, 1>> >>}

\* Every list of at most MaxBufFaces faces of at most MaxFaceLen indices into pool.
FaceLists(pool) == SeqsUpTo(SeqsUpTo(0..(Len(pool) - 1), MaxFaceLen), MaxBufFaces)

InitBuffer ==
    /\ vertices \in BufferPools
    /\ bound \in FaceLists(vertices)
    /\ data = Doc(vertices, FALSE, NoTransform, <<>>)
    /\ entry \in Entries
    /\ pc = "clean_buffer"
    /\ error = "none"
    /\ oi = 1
    /\ gi = 1
    /\ temp_vertices = <<>>
    /\ temp_bound = <<>>
    /\ values = JList(<<>>)
    /\ cityobjs = <<>>
    /\ new_objects = <<>>
    /\ linked = <<>>
    /\ diagnostics = 0
    /\ bpy_materials = <<>>
    /\ mats = <<>>
    /\ lod = JNull
    /\ scene_name = ""

\* temp_vertices, temp_bound = clean_buffer(vertices, bound)
CleanBufferCall ==
    /\ pc = "clean_buffer"
    /\ temp_vertices' = clean_buffer(vertices, bound).vertices
    /\ temp_bound' = clean_buffer(vertices, bound).faces
    /\ pc' = "compacted"
    /\ UNCHANGED <<data, entry, error, vertices, oi, gi, bound, values, cityobjs,
                   new_objects, linked, diagnostics,
                   bpy_materials, mats, lod, scene_name>>

SpecBuffer == InitBuffer /\ [][CleanBufferCall]_vars

\* The (face, position) pairs of `bound`, and those traversed before p.
Positions == UNION {{<<f, k>> : k \in DOMAIN bound[f]} : f \in DOMAIN bound}
Before(p) == {q \in Positions : q[1] < p[1] \/ (q[1] = p[1] /\ q[2] < p[2])}

\* C2: clean_buffer returns as many local vertices as the faces have indices;
\* the local index of (face, position) is its rank in traversal order, a
\* bijection onto 0..len-1; the local vertex is the pool's vertex at the global
\* index; two references to one global vertex get two local indices.
C2_Compacted ==
    pc = "compacted" =>
      /\ Len(temp_vertices) = Cardinality(Positions)
      /\ DOMAIN temp_bound = DOMAIN bound
      /\ \A f \in DOMAIN bound : DOMAIN temp_bound[f] = DOMAIN bound[f]
      /\ \A p \in Positions :
           /\ temp_bound[p[1]][p[2]] = Cardinality(Before(p))
           /\ temp_vertices[temp_bound[p[1]][p[2]] + 1] = vertices[bound[p[1]][p[2]] + 1]
      /\ {temp_bound[p[1]][p[2]] : p \in Positions} = 0..(Len(temp_vertices) - 1)
      /\ \A p, q \in Positions :
           p # q => temp_bound[p[1]][p[2]] # temp_bound[q[1]][q[2]]

\* One global vertex is referenced twice in a face and again from another face,
\* and the buffer has been compacted.
C2_Witness ==
    /\ pc = "compacted"
    /\ \E f, g \in DOMAIN bound :
         /\ f # g
         /\ Len(bound[f]) = 2
         /\ bound[f][1] = bound[f][2]
         /\ \E k \in DOMAIN bound[g] : bound[g][k] = bound[f][1]
    /\ Len(temp_vertices) > Len(vertices)

---------------------------------------------------------------------------
(* SpecProperties: assign_properties on every small nested attribute map.  *)

PropKeys == {"a", "b", "a.b", "children"}
PropLeaves == {JInt(1), JInt(2)}

RECURSIVE MapSize(_)
\* The number of items of a nested map, those of its inner maps included.
MapSize(items) ==
    IF items = <<>> THEN 0
    ELSE 1 + (IF IsDict(Head(items)[2]) THEN MapSize(Head(items)[2].v) ELSE 0)
           + MapSize(Tail(items))

RECURSIVE Maps(_)
\* The item lists, with distinct keys in every map, of at most n items in all.
Maps(n) ==
    {<<>>} \cup
    (IF n = 0 THEN {}
     ELSE UNION {UNION {{<< <<k, val>> >> \o rest :
                           rest \in {r \in Maps(n - MapSize(<< <<k, val>> >>)) :
                                       \A i \in DOMAIN r : r[i][1] # k}} :
                        val \in PropLeaves \cup {JDict(m) : m \in Maps(n - 1)}} :
                 k \in PropKeys})

PropertyDocs ==
    {Doc(BasePool(3), FALSE, NoTransform,
         << <<"A", CityObject("Building", <<>>, items)>> >>) :
       items \in Maps(MaxPropItems)}

InitProperties == Start(PropertyDocs, {"execute"})

NextProperties == PrepareVertices \/ ExecuteCreate

SpecProperties == InitProperties /\ [][NextProperties]_vars

RECURSIVE Leaves(_, _, _)
\* The leaves of a nested map that are under no reserved key: where each is
\* (item positions from the top), the map keys on its path, and its value.
Leaves(d, pos, keys) ==
    UNION {LET k == d.v[i][1]
               val == d.v[i][2]
           IN  IF k \in Reserved THEN {}
               ELSE IF IsDict(val) THEN Leaves(val, Append(pos, i), Append(keys, k))
               ELSE {[pos |-> Append(pos, i), keys |-> Append(keys, k), val |-> val]} :
           i \in DOMAIN d.v}

RECURSIVE DotJoin(_)
DotJoin(keys) ==
    IF Len(keys) = 1 THEN keys[1]
    ELSE DotJoin(SubSeq(keys, 1, Len(keys) - 1)) \o "." \o keys[Len(keys)]

\* p is visited before q.
VisitedBefore(p, q) ==
    \E n \in DOMAIN p \cap DOMAIN q :
      p[n] < q[n] /\ \A m \in 1..(n - 1) : p[m] = q[m]

\* C10: the container of a CityObject holds exactly one property per flattened
\* key of a leaf under no reserved key, the key being the path joined with '.',
\* and its value is that of the leaf visited last among those with that key.
C10_Flattened ==
    (entry = "execute" /\ Len(new_objects) >= 1) =>
      LET leaves == Leaves(Obj(1), <<>>, <<>>)
          props == new_objects[1].props
      IN  /\ DOMAIN props = {DotJoin(l.keys) : l \in leaves}
          /\ \A l \in leaves :
               (\A l2 \in leaves : DotJoin(l2.keys) = DotJoin(l.keys)
                                     => ~VisitedBefore(l.pos, l2.pos))
               => props[DotJoin(l.keys)] = l.val

\* {"a": {"b": x}, "a.b": y} with x # y, and a reserved key inside a nested map,
\* have been flattened.
C10_Witness ==
    /\ entry = "execute"
    /\ Len(new_objects) >= 1
    /\ \E l1, l2 \in Leaves(Obj(1), <<>>, <<>>) :
         /\ l1.keys = <<"a", "b">>
         /\ l2.keys = <<"a.b">>
         /\ l1.val # l2.val
         /\ new_objects[1].props["a.b"] = l2.val
         /\ VisitedBefore(l1.pos, l2.pos)

---------------------------------------------------------------------------
(* SpecGeometry: the import of one CityObject with one geometry, over      *)
(* every nesting shape of at most MaxNodes lists and faces.                *)

RECURSIVE SumSeq(_)
SumSeq(q) == IF q = <<>> THEN 0 ELSE Head(q) + SumSeq(Tail(q))

\* A shell list as the face counts of its shells: each shell and each face is
\* one node, at most n nodes in all.
RECURSIVE ShellShapes(_)
ShellShapes(n) ==
    {<<>>} \cup
    (IF n = 0 THEN {}
     ELSE UNION {{<<k>> \o r : r \in ShellShapes(n - 1 - k)} : k \in 0..(n - 1)})

ShellNodes(q) == Len(q) + SumSeq(q)

\* A solid list as the shell shapes of its solids, at most n nodes in all.
RECURSIVE SolidShapes(_)
SolidShapes(n) ==
    {<<>>} \cup
    (IF n = 0 THEN {}
     ELSE UNION {{<<q>> \o r : r \in SolidShapes(n - 1 - ShellNodes(q))} :
                 q \in ShellShapes(n - 1)})

RECURSIVE SolidFaces(_)
\* The number of faces of a list of shell shapes.
SolidFaces(m) == IF m = <<>> THEN 0 ELSE SumSeq(Head(m)) + SolidFaces(Tail(m))

\* What the k-th face of a geometry is, by a repeating pattern of kinds:
\* "P" one ring, "H" an outer ring and a hole, "E" an empty ring list.
KindPatterns == {<<"P">>, <<"E", "P">>, <<"H", "P", "E">>, <<"P", "H">>}

Ring(k) == <<k - 1, k, k + 1>>
Hole(k) == <<k + 1, k, k - 1>>

Face(pat, k) ==
    LET kind == pat[((k - 1) % Len(pat)) + 1]
    IN  CASE kind = "P" -> <<Ring(k)>>
          [] kind = "H" -> <<Ring(k), Hole(k)>>
          [] OTHER -> <<>>

\* Boundaries of the shapes, the faces numbered from `base` + 1 in source order.
FacesOf(n, pat, base) == [j \in 1..n |-> Face(pat, base + j)]
ShellsOf(q, pat, base) ==
    [i \in DOMAIN q |-> FacesOf(q[i], pat, base + SumSeq(SubSeq(q, 1, i - 1)))]
SolidsOf(m, pat) ==
    [a \in DOMAIN m |-> ShellsOf(m[a], pat, SolidFaces(SubSeq(m, 1, a - 1)))]

Supported == {"MultiSurface", "CompositeSurface", "Solid", "MultiSolid"}

SurfaceGeometries ==
    {Geometry(type, FacesOf(n, pat, 0)) :
       type \in {"MultiSurface", "CompositeSurface"}, n \in 0..MaxNodes,
       pat \in KindPatterns}

SolidGeometries ==
    {Geometry("Solid", ShellsOf(q, pat, 0)) :
       q \in ShellShapes(MaxNodes), pat \in KindPatterns}

MultiSolidGeometries ==
    {Geometry("MultiSolid", SolidsOf(m, pat)) :
       m \in SolidShapes(MaxNodes), pat \in KindPatterns}

\* Geometries of a type the importers do not dispatch on.
OtherGeometries ==
    {Geometry("MultiPoint", <<0, 1, 2>>),
     [Geometry("GeometryInstance", <<3>>) EXCEPT !.hasLod = FALSE]}

OneObject(geoms) == << <<"A", CityObject("Building", geoms, <<>>)>> >>

GeometryDocs ==
    {Doc(BasePool(MaxNodes + 2), FALSE, NoTransform, OneObject(<<g>>)) :
       g \in SurfaceGeometries \cup SolidGeometries \cup MultiSolidGeometries
             \cup OtherGeometries}

InitGeometry == Start(GeometryDocs, Entries)

SpecGeometry == InitGeometry /\ [][Next]_vars

\* The faces with a non-empty ring list, as index paths at the nesting depth of
\* the geometry's type: <<face>>, <<shell, face>> or <<solid, shell, face>>.
FacePaths(geom) ==
    LET b == geom.boundaries
    IN  CASE geom.type \in {"MultiSurface", "CompositeSurface"} ->
               {<<i>> : i \in {i \in DOMAIN b : b[i] # <<>>}}
          [] geom.type = "Solid" ->
               UNION {{<<i, j>> : j \in {j \in DOMAIN b[i] : b[i][j] # <<>>}} :
                      i \in DOMAIN b}
          [] geom.type = "MultiSolid" ->
               UNION {UNION {{<<a, i, j>> :
                                j \in {j \in DOMAIN b[a][i] : b[a][i][j] # <<>>}} :
                             i \in DOMAIN b[a]} :
                      a \in DOMAIN b}

FaceAt(geom, p) ==
    LET b == geom.boundaries
    IN  CASE Len(p) = 1 -> b[p[1]]
          [] Len(p) = 2 -> b[p[1]][p[2]]
          [] Len(p) = 3 -> b[p[1]][p[2]][p[3]]

\* The 1-based place of path p among the paths P in source order.
Rank(p, P) == Cardinality({q \in P : VisitedBefore(q, p)}) + 1

\* `faces` is `before` followed by the first rings of the non-empty faces of
\* geom, in source order.
AppendsFirstRings(faces, before, geom) ==
    LET P == FacePaths(geom)
    IN  /\ Len(faces) = Len(before) + Cardinality(P)
        /\ SubSeq(faces, 1, Len(before)) = before
        /\ \A p \in P : faces[Len(before) + Rank(p, P)] = FaceAt(geom, p)[1]

\* C1: every geometry step of a supported type leaves in `bound` exactly the
\* first rings of the non-empty faces found at the depth of the type, in source
\* order (in objects_renderer: appended to what `bound` held); inner rings are
\* dropped, empty faces skipped, and the count is that of the non-empty faces.
C1_FirstRings ==
    [][(pc = "geometry" /\ Geoms(oi)[gi].type \in Supported)
         => AppendsFirstRings(bound',
                              IF entry = "execute" THEN <<>> ELSE bound,
                              Geoms(oi)[gi])]_vars

\* A Solid of 2 shells of 3 faces has been flattened to 6 faces, and so has a
\* MultiSolid with a hole and an empty face to fewer faces than it lists.
C1_Witness ==
    /\ pc = "done"
    /\ \/ /\ Geoms(1)[1].type = "Solid"
          /\ Len(Geoms(1)[1].boundaries) = 2
          /\ \A i \in 1..2 : Len(Geoms(1)[1].boundaries[i]) = 3
          /\ Len(bound) = 6
          /\ bound[4] = Geoms(1)[1].boundaries[2][1][1]
       \/ /\ Geoms(1)[1].type = "MultiSolid"
          /\ Len(Geoms(1)[1].boundaries) = 2
          /\ \E p \in FacePaths(Geoms(1)[1]) : Len(FaceAt(Geoms(1)[1], p)) = 2
          /\ Len(bound) = 2
          /\ SolidFaces([a \in 1..2 |-> [i \in DOMAIN Geoms(1)[1].boundaries[a] |->
                 Len(Geoms(1)[1].boundaries[a][i])]]) = 3

\* C6 as claimed: an import that ends in success has met no geometry of a type
\* outside MultiSurface, CompositeSurface, Solid, MultiSolid.
C6_UnsupportedFails ==
    pc = "done" =>
      \A o \in DOMAIN data.CityObjects :
        \A g \in DOMAIN Geoms(o) : Geoms(o)[g].type \in Supported

---------------------------------------------------------------------------
(* SpecSemantics: the import of one geometry with a semantics block, the   *)
(* shape of semantics.values chosen independently of that of boundaries.   *)

\* What the k-th entry of semantics.values is, by a repeating pattern.
ValuePatterns ==
    {<<JInt(0)>>, <<JInt(0), JInt(1)>>, <<JNull, JInt(1)>>, <<JInt(1), JNull, JInt(0)>>}

Val(pat, k) == pat[((k - 1) % Len(pat)) + 1]

ValuesOf(n, pat, base) == JList([j \in 1..n |-> Val(pat, base + j)])
ShellValuesOf(q, pat, base) ==
    JList([i \in DOMAIN q |-> ValuesOf(q[i], pat, base + SumSeq(SubSeq(q, 1, i - 1)))])
SolidValuesOf(m, pat) ==
    JList([a \in DOMAIN m |-> ShellValuesOf(m[a], pat, SolidFaces(SubSeq(m, 1, a - 1)))])

Surfaces == <<"WallSurface", "RoofSurface">>

Semantic(geom, vals) ==
    [geom EXCEPT !.hasSemantics = TRUE, !.values = vals, !.surfaces = Surfaces]

SemanticGeometries ==
    {Semantic(Geometry("MultiSurface", FacesOf(n, <<"P">>, 0)), ValuesOf(k, vp, 0)) :
       n \in 0..MaxSemNodes, k \in 0..MaxSemNodes, vp \in ValuePatterns}
    \cup
    {Semantic(Geometry("Solid", ShellsOf(q, <<"P">>, 0)), ShellValuesOf(r, vp, 0)) :
       q \in ShellShapes(MaxSemNodes), r \in ShellShapes(MaxSemNodes),
       vp \in ValuePatterns}
    \cup
    {Semantic(Geometry("MultiSolid", SolidsOf(m, <<"P">>)), SolidValuesOf(r, vp)) :
       m \in SolidShapes(MaxSemNodes), r \in SolidShapes(MaxSemNodes),
       vp \in ValuePatterns}

SemanticDocs ==
    {Doc(BasePool(MaxSemNodes + 2), FALSE, NoTransform, OneObject(<<g>>)) :
       g \in SemanticGeometries}

InitSemantics == Start(SemanticDocs, Entries)

SpecSemantics == InitSemantics /\ [][Next]_vars

\* The mesh object the geometry step has just appended.
NewMesh == new_objects'[Len(new_objects')]

\* C3 as claimed: a null in semantics.values leaves its face without a material
\* index and does not make the import fail.  Stated of objects_renderer, whose
\* code is whole in the source, and of a MultiSurface with one value per face,
\* at least one of them null: the geometry step does not fail, the face at a
\* null keeps no index, every other face gets its value.
C3_NullMeansNoIndex ==
    [][(/\ pc = "geometry"
        /\ entry = "objects_renderer"
        /\ Geoms(oi)[gi].hasSemantics
        /\ Geoms(oi)[gi].type = "MultiSurface"
        /\ Len(Geoms(oi)[gi].values.v) = Len(Geoms(oi)[gi].boundaries)
        /\ \E k \in DOMAIN Geoms(oi)[gi].values.v : Geoms(oi)[gi].values.v[k] = JNull)
         => /\ pc' # "failed"
            /\ \A k \in DOMAIN Geoms(oi)[gi].boundaries :
                 NewMesh.material_index[k] =
                   IF Geoms(oi)[gi].values.v[k] = JNull THEN Unset
                   ELSE Geoms(oi)[gi].values.v[k]]_vars

\* The entries of semantics.values in source order at the depth of the type.
ValuePaths(geom) ==
    LET w == geom.values.v
    IN  CASE geom.type = "Solid" ->
               UNION {{<<i, j>> : j \in DOMAIN w[i].v} : i \in DOMAIN w}
          [] geom.type = "MultiSolid" ->
               UNION {UNION {{<<a, i, j>> : j \in DOMAIN w[a].v[i].v} :
                             i \in DOMAIN w[a].v} :
                      a \in DOMAIN w}
          [] OTHER -> {<<i>> : i \in DOMAIN w}

ValueAt(geom, p) ==
    LET w == geom.values.v
    IN  CASE Len(p) = 1 -> w[p[1]]
          [] Len(p) = 2 -> w[p[1]].v[p[2]]
          [] Len(p) = 3 -> w[p[1]].v[p[2]].v[p[3]]

RECURSIVE NoEmptyList(_)
\* No list of the nested value is empty.
NoEmptyList(x) ==
    IsList(x) => (x.v # <<>> /\ \A i \in DOMAIN x.v : NoEmptyList(x.v[i]))

\* C4 as claimed: the values handed to the mesh are semantics.values flattened
\* by the rule of the geometry's type, every shell and every solid included.
\* Stated of values that mirror the boundaries, one per face, no list empty:
\* the k-th value handed over is the value of the k-th flattened face.
C4_ValuesFlattenedLikeFaces ==
    [][(/\ pc = "geometry"
        /\ Geoms(oi)[gi].hasSemantics
        /\ NoEmptyList(Geoms(oi)[gi].values)
        /\ ValuePaths(Geoms(oi)[gi]) = FacePaths(Geoms(oi)[gi]))
         => LET P == ValuePaths(Geoms(oi)[gi])
            IN  /\ Len(values'.v) = Cardinality(P)
                /\ \A p \in P : values'.v[Rank(p, P)] = ValueAt(Geoms(oi)[gi], p)]_vars

\* C5 as claimed: with n faces and m flattened integer values, m > n prints a
\* diagnostic and face k gets entry k for every k < n; m < n gives faces
\* 0..m-1 their entries and the others none; the import does not abort.
C5_TruncateOrPad ==
    [][(/\ pc = "geometry"
        /\ Geoms(oi)[gi].hasSemantics
        /\ AllInts(values'.v)
        /\ Len(values'.v) >= 1
        /\ Len(temp_bound') >= 1
        /\ Len(values'.v) # Len(temp_bound'))
         => /\ pc' # "failed"
            /\ \A k \in DOMAIN temp_bound' :
                 NewMesh.material_index[k] =
                   IF k <= Len(values'.v) THEN values'.v[k] ELSE Unset
            /\ Len(values'.v) > Len(temp_bound') => diagnostics' = diagnostics + 1]_vars

---------------------------------------------------------------------------
(* SpecHierarchy: documents of up to MaxObjs CityObjects whose `parents`   *)
(* is absent, empty, one id or two ids, over the ids of the document and   *)
(* the unknown id "X".  The first object carries one geometry.             *)

Ids == <<"A", "B", "C", "D", "E">>
Unknown == "X"

\* The `parents` lists an object of a document with ids 1..n may declare.
ParentLists(n) ==
    {<<>>}
      \cup {<<p>> : p \in {Ids[i] : i \in 1..n} \cup {Unknown}}
      \cup {<<Ids[i], Unknown>> : i \in 1..n}
      \cup {<<Unknown, Ids[1]>>}

\* What an object declares: no `parents` key, or one of the lists.
ParentChoices(n) ==
    {[has |-> FALSE, ids |-> <<>>]} \cup {[has |-> TRUE, ids |-> l] : l \in ParentLists(n)}

\* The position of the first listed parent of object o under the choices ch,
\* 0 if it has none or the id is unknown.
FirstParentOf(n, ch, o) ==
    IF ch[o].ids = <<>> \/ ch[o].ids[1] = Unknown THEN 0
    ELSE CHOOSE i \in 1..n : Ids[i] = ch[o].ids[1]

RECURSIVE Climb(_, _, _, _)
\* Where k steps up the first-parent chain from object o end, 0 past a root.
Climb(n, ch, o, k) ==
    IF k = 0 \/ o = 0 THEN o ELSE Climb(n, ch, FirstParentOf(n, ch, o), k - 1)

\* CityJSON documents declare no cyclic parent chain.
Acyclic(n, ch) == \A o \in 1..n : Climb(n, ch, o, n) = 0

\* The CityObjects of the documents with n objects.
HierarchyObjects(n) ==
    {[i \in 1..n |->
        <<Ids[i], CityObject("Building",
                             IF i = 1 THEN <<Triangle>> ELSE <<>>,
                             IF ch[i].has THEN Parents(ch[i].ids) ELSE <<>>)>>] :
       ch \in {c \in [1..n -> ParentChoices(n)] : Acyclic(n, c)}}

HierarchyDocs(k) ==
    UNION {{Doc(BasePool(3), FALSE, NoTransform, objs) : objs \in HierarchyObjects(n)} :
             n \in 1..k}

InitHierarchy == Start(HierarchyDocs(MaxObjs), Entries)

SpecHierarchy == InitHierarchy /\ [][Next]_vars

DeclaresParent(o) ==
    HasKey(Obj(o), "parents") /\ Get(Obj(o), "parents").v # <<>>

FirstParent(o) == Get(Obj(o), "parents").v[1]

DocIds == {ObjId(o) : o \in 1..NObjs}

Dangling(o) == DeclaresParent(o) /\ FirstParent(o) \notin DocIds

\* The container created for the CityObject with this id.
Container(id) == Min(ObjectsNamed(new_objects, id))

\* Every container and every mesh of the document is in new_objects.
AllBuilt ==
    /\ \A o \in 1..NObjs : ObjectsNamed(new_objects, ObjId(o)) # {}
    /\ Len(new_objects) = NObjs + SumSeq([o \in 1..NObjs |-> Len(Geoms(o))])

\* C7: a first listed parent id that is no key of CityObjects makes the
\* import fail (the hierarchy pass that meets it raises KeyError) before any
\* object is linked; in every run objects are linked only once all of them
\* are built and every declared first parent has been resolved.
C7_LinkOnlyAfterResolved ==
    /\ (\E o \in 1..NObjs : Dangling(o)) =>
          /\ pc \notin {"link", "done"}
          /\ linked = <<>>
    /\ (pc = "failed" /\ Dangling(oi)) => error = "KeyError"
    /\ linked # <<>> =>
          /\ pc \in {"link", "done"}
          /\ AllBuilt
          /\ \A o \in 1..NObjs :
               DeclaresParent(o) =>
                 /\ FirstParent(o) \in DocIds
                 /\ new_objects[Container(ObjId(o))].parent =
                      <<Container(FirstParent(o))>>

\* The second of three objects names an unknown parent after the first was
\* attached to the third: the import has failed with nothing linked.
C7_Witness ==
    /\ pc = "failed"
    /\ error = "KeyError"
    /\ NObjs = 3
    /\ oi = 2
    /\ Dangling(2)
    /\ DeclaresParent(1) /\ FirstParent(1) = "C"
    /\ AllBuilt
    /\ new_objects[Container("A")].parent = <<Container("C")>>
    /\ linked = <<>>

\* C8: after a successful import every CityObject with a non-empty `parents`
\* has the container of the first listed id as its parent and every other
\* CityObject has none; and the hierarchy pass of an object whose `parents`
\* is absent or empty does not fail.
C8_FirstParentOrNone ==
    /\ [](pc = "done" =>
            \A o \in 1..NObjs :
              new_objects[Container(ObjId(o))].parent =
                IF DeclaresParent(o) THEN <<Container(FirstParent(o))>>
                ELSE NoParent)
    /\ [][(pc = "hierarchy" /\ ~DeclaresParent(oi)) => pc' # "failed"]_vars

---------------------------------------------------------------------------
(* SpecMaterials: one face whose semantics lists up to MaxSurfaces surface *)
(* types in any order, some of them a prefix of another.                   *)

SurfaceLists ==
    SeqsUpTo({SurfaceTypes[i] : i \in DOMAIN SurfaceTypes}, MaxSurfaces) \ {<<>>}

MaterialDocs ==
    {Doc(BasePool(3), FALSE, NoTransform,
         OneObject(<<[Triangle EXCEPT !.hasSemantics = TRUE,
                                      !.values = JList(<<JInt(0)>>),
                                      !.surfaces = l]>>)) :
       l \in SurfaceLists}

InitMaterials == Start(MaterialDocs, Entries)

SpecMaterials == InitMaterials /\ [][Next]_vars

\* The type tag a material carries.
TypeTag(m) == m.props["type"].v

Registered(ms) == {ms[i] : i \in DOMAIN ms}

\* C11: the lookups of the surfaces of a geometry return, for each surface, a
\* registered material with the type tag of that surface; the registry keeps
\* its materials, never holds two with the same type tag, and gains a material
\* only for a surface type that had none.
C11_ReuseByTypeTag ==
    [][(pc = "geometry" /\ Geoms(oi)[gi].hasSemantics) =>
         LET surfaces == Geoms(oi)[gi].surfaces
         IN  /\ Len(mats') = Len(surfaces)
             /\ \A k \in DOMAIN surfaces :
                  /\ TypeTag(mats'[k]) = surfaces[k]
                  /\ mats'[k] \in Registered(bpy_materials')
             /\ \A a, b \in DOMAIN bpy_materials' :
                  a # b => TypeTag(bpy_materials'[a]) # TypeTag(bpy_materials'[b])
             /\ Registered(bpy_materials) \subseteq Registered(bpy_materials')
             /\ \A m \in Registered(bpy_materials') \ Registered(bpy_materials) :
                  /\ \E k \in DOMAIN surfaces : surfaces[k] = TypeTag(m)
                  /\ \A old \in Registered(bpy_materials) : TypeTag(old) # TypeTag(m)]_vars

---------------------------------------------------------------------------
(* SpecSceneName: get_scene_name of integer, float and string labels.      *)

LodStrings == {"", "0", "1", "01", "1.0", "2", "2.1", "2.10", "2.1 ", "two"}

Labels ==
    {JInt(n) : n \in 0..MaxLod}
      \cup {JFloat(i, d) : i \in 0..MaxLod, d \in 0..9}
      \cup {JStr(x) : x \in LodStrings}

InitSceneName ==
    /\ lod \in Labels
    /\ pc = "get_scene_name"
    /\ scene_name = ""
    /\ data = Doc(<<>>, FALSE, NoTransform, <<>>)
    /\ entry = "objects_renderer"
    /\ error = "none"
    /\ vertices = <<>>
    /\ oi = 1
    /\ gi = 1
    /\ bound = <<>>
    /\ temp_vertices = <<>>
    /\ temp_bound = <<>>
    /\ values = JList(<<>>)
    /\ cityobjs = <<>>
    /\ new_objects = <<>>
    /\ linked = <<>>
    /\ diagnostics = 0
    /\ bpy_materials = <<>>
    /\ mats = <<>>

\* name = get_scene_name(lod)
GetSceneNameCall ==
    /\ pc = "get_scene_name"
    /\ scene_name' = get_scene_name(lod)
    /\ pc' = "named"
    /\ UNCHANGED <<data, entry, error, vertices, oi, gi, bound, temp_vertices,
                   temp_bound, values, cityobjs, new_objects, linked, diagnostics,
                   bpy_materials, mats, lod>>

SpecSceneName == InitSceneName /\ [][GetSceneNameCall]_vars

\* The character of s at position k
Char(s, k) == SubSeq(s, k, k)

IsDigit(c) == \E d \in 0..9 : DigitStr[d + 1] = c

DigitOf(c) == CHOOSE d \in 0..9 : DigitStr[d + 1] = c

RECURSIVE ParseDec(_)
\* The number a string of digits denotes
ParseDec(s) ==
    IF Len(s) = 1 THEN DigitOf(s)
    ELSE 10 * ParseDec(SubSeq(s, 1, Len(s) - 1)) + DigitOf(Char(s, Len(s)))

\* s is the decimal numeral of n, without sign or leading zero
IsDecimalOf(s, n) ==
    /\ Len(s) >= 1
    /\ \A k \in 1..Len(s) : IsDigit(Char(s, k))
    /\ Len(s) > 1 => Char(s, 1) # "0"
    /\ ParseDec(s) = n

\* s is the text of label l: the string itself, the numeral of an integer,
\* "i.d" for the float i + d/10
IsTextOf(s, l) ==
    CASE l.t = "str" -> s = l.v
      [] l.t = "int" -> IsDecimalOf(s, l.v)
      [] l.t = "float" ->
           /\ Len(s) >= 3
           /\ Char(s, Len(s) - 1) = "."
           /\ IsDecimalOf(SubSeq(s, 1, Len(s) - 2), l.v[1])
           /\ IsDigit(Char(s, Len(s))) /\ DigitOf(Char(s, Len(s))) = l.v[2]

\* C12: the name is "LoD " followed by the text of the label, and every label
\* that gets the same name has the same text.
C12_SceneNameVerbatim ==
    pc = "named" =>
      /\ Len(scene_name) >= 4
      /\ SubSeq(scene_name, 1, 4) = "LoD "
      /\ IsTextOf(SubSeq(scene_name, 5, Len(scene_name)), lod)
      /\ \A l \in Labels :
           get_scene_name(l) = scene_name =>
             IsTextOf(SubSeq(scene_name, 5, Len(scene_name)), l)

\* The call of the repository's test: "2.1" gives "LoD 2.1"; and a whole
\* float keeps its fraction.
C12_Witness ==
    /\ pc = "named"
    /\ \/ lod = JStr("2.1") /\ scene_name = "LoD 2.1"
       \/ lod = JFloat(1, 0) /\ scene_name = "LoD 1.0"

---------------------------------------------------------------------------
(* SpecMeshes: one or two CityObjects of up to MaxGeoms geometries, each a *)
(* MultiSurface of one or two faces; no two faces of a document share a    *)
(* vertex index triple.                                                    *)

\* The geometries of a CityObject, as the face counts of its geometries.
GeomShapes == SeqsUpTo({1, 2}, MaxGeoms) \ {<<>>}

\* The geometries of the object at position o of a document.
GeomsOf(shape, o) ==
    [g \in DOMAIN shape |->
       Geometry("MultiSurface",
                FacesOf(shape[g], <<"P">>, 2 * ((o - 1) * MaxGeoms + (g - 1))))]

MeshObjects ==
    {<< <<"A", CityObject("Building", GeomsOf(a, 1), <<>>)>> >> : a \in GeomShapes}
      \cup {<< <<"A", CityObject("Building", GeomsOf(a, 1), <<>>)>>,
               <<"B", CityObject("Road", GeomsOf(b, 2), <<>>)>> >> :
              a \in GeomShapes, b \in GeomShapes}

MeshDocs ==
    {Doc(BasePool(4 * MaxGeoms + 2), FALSE, NoTransform, objs) : objs \in MeshObjects}

InitMeshes == Start(MeshDocs, Entries)

SpecMeshes == InitMeshes /\ [][Next]_vars

\* The mesh holds the first rings of the non-empty faces of geom, in source
\* order, as local indices into its own vertices, and no other vertex.
HoldsExactly(mesh, geom, pool) ==
    LET P == FacePaths(geom)
    IN  /\ Len(mesh.faces) = Cardinality(P)
        /\ \A p \in P :
             LET ring == FaceAt(geom, p)[1]
                 face == mesh.faces[Rank(p, P)]
             IN  /\ Len(face) = Len(ring)
                 /\ \A j \in DOMAIN ring :
                      mesh.vertices[face[j] + 1] = pool[ring[j] + 1]
        /\ \A v \in DOMAIN mesh.vertices :
             \E f \in DOMAIN mesh.faces :
               \E j \in DOMAIN mesh.faces[f] : mesh.faces[f][j] + 1 = v

\* C13: the mesh built for the geometry at index i of a CityObject holds
\* exactly the flattened faces of that geometry and the vertices they
\* reference, whatever was built before it.
C13_MeshOfOneGeometry ==
    [][(pc = "geometry" /\ pc' # "failed") =>
         HoldsExactly(NewMesh, Geoms(oi)[gi], vertices)]_vars

====
